---- MODULE Spec2Model ----
(***************************************************************************)
(* The PDF conversion service of src/index.js as a state machine: the job  *)
(* tracker (conversionJobs, jobCounter), the input and output directories, *)
(* the setImmediate queue, and one conversion pipeline per job, cut at     *)
(* every await of convertPDFToImages.  Each HTTP handler is one action.    *)
(***************************************************************************)
EXTENDS Integers, Sequences, FiniteSets, TLC

(* ------------------------------ bounds ---------------------------------- *)

\* uploads accepted in one run of the process
MaxJobs == 2
\* pages of the largest uploaded document
MaxPages == 2
\* distinct directory ids (and input file names) the callers use
NumDirs == 2
\* byte length of a page's raw canvas buffer
RawLen == 2
\* byte length of a page's buffer after a successful optimization
OptLen == 1
\* PDF files the batch converter finds in its input directory
MaxPdfs == 2
\* pages of the largest document whose progress values are computed one by one
MaxTotal == 50

(* ------------------------------ values ---------------------------------- *)

DirIds == 1 .. NumDirs

\* a document is corrupt or has a number of pages
Corrupt == MaxPages + 1
Documents == 0 .. Corrupt

\* an optional field of a JavaScript object: absent, or holding one value
None == << >>
Some(v) == << v >>
Present(x) == x # None

imageFormat == "jpeg"

VARIABLES
    jobCounter,      \* index.js:39
    conversionJobs,  \* index.js:38, job id -> Job Record
    inputDir,        \* pdfs/: directory id n of file n.pdf -> stored document
    outputDir,       \* images/: directory id -> [exists, files]
    immediates,      \* the setImmediate queue: job ids whose pipeline is scheduled
    proc,            \* job id -> the locals and position of its convertPDFToImages call
    responses,       \* the 200 answers sent to uploads so far, in the order sent
    batch            \* the run of the batch converter script (unnamed/part_000)

vars == << jobCounter, conversionJobs, inputDir, outputDir, immediates, proc, responses,
          batch >>

JobIds == DOMAIN conversionJobs

(* -------------------------- file system helpers ------------------------- *)

\* the name `${pageNum}.${format}` of a page file
PageFileName(pageNum, format) == << pageNum, format >>

EmptyDir == [exists |-> FALSE, files |-> << >>]

FileNames(dir) == DOMAIN dir.files

WriteFile(dir, name, content) ==
    [dir EXCEPT !.files =
        [n \in (DOMAIN dir.files) \cup {name} |->
            IF n = name THEN content ELSE dir.files[n]]]

Unlink(dir, name) ==
    [dir EXCEPT !.files = [n \in (DOMAIN dir.files) \ {name} |-> dir.files[n]]]

\* the orders in which readdir may list a set of names
Listings(S) ==
    { s \in [1 .. Cardinality(S) -> S] : \A a, b \in 1 .. Cardinality(S) : a # b => s[a] # s[b] }

(* --------------------------- Number arithmetic -------------------------- *)

\* A JavaScript Number is an IEEE 754 double: a significand of Precision bits, most
\* significant bit first and set, scaled by a power of two:
\* [sig |-> bits, exp |-> e] is the number ToInt(bits) * 2^e.
Precision == 53

RECURSIVE ToInt(_)
ToInt(bits) ==
    IF bits = << >> THEN 0
    ELSE 2 * ToInt(SubSeq(bits, 1, Len(bits) - 1)) + bits[Len(bits)]

RECURSIVE BitsOf(_)
BitsOf(n) == IF n = 0 THEN << >> ELSE Append(BitsOf(n \div 2), n % 2)

\* bits + 1; a carry out of the first bit makes the sequence one bit longer
RECURSIVE Increment(_)
Increment(bits) ==
    IF bits = << >> THEN << 1 >>
    ELSE IF bits[Len(bits)] = 0
         THEN Append(SubSeq(bits, 1, Len(bits) - 1), 1)
         ELSE Append(Increment(SubSeq(bits, 1, Len(bits) - 1)), 0)

AnySet(bits) == \E i \in 1 .. Len(bits) : bits[i] = 1

\* round to nearest, ties to even: the exact value is ToInt(bits) * 2^exp plus, when
\* sticky, a positive amount below one unit of the last bit
Round(bits, exp, sticky) ==
    IF Len(bits) <= Precision
    THEN [sig |-> bits, exp |-> exp]
    ELSE LET kept == SubSeq(bits, 1, Precision)
             guard == bits[Precision + 1]
             below == sticky \/ AnySet(SubSeq(bits, Precision + 2, Len(bits)))
             up == guard = 1 /\ (below \/ kept[Precision] = 1)
             sig == IF up THEN Increment(kept) ELSE kept
             dropped == Len(bits) - Precision
         IN IF Len(sig) > Precision
            THEN [sig |-> SubSeq(sig, 1, Precision), exp |-> exp + dropped + 1]
            ELSE [sig |-> sig, exp |-> exp + dropped]

\* the first k bits after the binary point of r / t, for 0 <= r < t, and what is left
RECURSIVE LongDivision(_, _, _, _)
LongDivision(r, t, k, bits) ==
    IF k = 0 THEN [bits |-> bits, rem |-> r]
    ELSE LongDivision(IF 2 * r >= t THEN 2 * r - t ELSE 2 * r, t, k - 1,
                      Append(bits, IF 2 * r >= t THEN 1 ELSE 0))

\* the least s with p * 2^s >= t
RECURSIVE Normalise(_, _)
Normalise(p, t) == IF p >= t THEN 0 ELSE 1 + Normalise(2 * p, t)

Scaled(p, s) == p * (2 ^ s)

\* the double p / t, for integers 1 <= p <= t
Divide(p, t) ==
    LET s == Normalise(p, t)
        q == LongDivision(Scaled(p, s) - t, t, Precision, << 1 >>)
    IN Round(q.bits, 0 - Precision - s, q.rem # 0)

\* the bits of ToInt(bits) * c + carry, for a small integer c
RECURSIVE TimesSmall(_, _, _, _)
TimesSmall(bits, c, carry, low) ==
    IF bits = << >> THEN BitsOf(carry) \o low
    ELSE TimesSmall(SubSeq(bits, 1, Len(bits) - 1), c,
                    (bits[Len(bits)] * c + carry) \div 2,
                    << (bits[Len(bits)] * c + carry) % 2 >> \o low)

\* the double x * c, for a double x and a small integer c
Times(x, c) == Round(TimesSmall(x.sig, c, 0, << >>), x.exp, FALSE)

\* Math.floor of a double x > 0 below 2^Precision
MathFloor(x) ==
    IF Len(x.sig) + x.exp <= 0 THEN 0
    ELSE ToInt(SubSeq(x.sig, 1, Len(x.sig) + x.exp))

\* index.js:280: Math.floor((job.processedPages / totalPages) * 100)
Progress(processedPages, totalPages) ==
    MathFloor(Times(Divide(processedPages, totalPages), 100))

\* the values of Progress for the documents of up to MaxTotal pages, computed once
ProgressOf == [t \in 1 .. MaxTotal |-> [p \in 1 .. t |-> Progress(p, t)]]

(* ----------------------------- Job Records ------------------------------ *)

\* index.js:343-352
NewJobEager(jobId, directoryId, pdfPath) ==
    [ id |-> jobId, directoryId |-> directoryId, pdfPath |-> pdfPath,
      status |-> "processing", progress |-> 0, startTime |-> "Date",
      processedPages |-> 0, totalPages |-> 0,
      currentPage |-> None, outputPath |-> None, endTime |-> None,
      error |-> None, errors |-> None, compressionRatio |-> None ]

NewJob(jobId, directoryId, pdfPath) ==
    [ id |-> jobId, directoryId |-> directoryId, pdfPath |-> pdfPath,
      status |-> "pending", progress |-> 0, startTime |-> "Date",
      processedPages |-> 0, totalPages |-> 0,
      currentPage |-> None, outputPath |-> None, endTime |-> None,
      error |-> None, errors |-> None, compressionRatio |-> None ]

\* index.js:208
MarkProcessing(job) == [job EXCEPT !.status = "processing"]

\* index.js:311-317, the fatal catch
FailJobSilently(job, message) ==
    [job EXCEPT !.status = "failed", !.endTime = Some("Date")]

FailJobNoEndTime(job, message) ==
    [job EXCEPT !.status = "failed", !.error = Some(message)]

FailJob(job, message) ==
    [job EXCEPT !.status = "failed", !.error = Some(message), !.endTime = Some("Date")]

\* index.js:229-230
SetTotalPagesForgotten(job, totalPages) ==
    [job EXCEPT !.processedPages = 0]

SetTotalPages(job, totalPages) ==
    [job EXCEPT !.totalPages = totalPages, !.processedPages = 0]

\* index.js:279-280
PageDone(job, totalPages) ==
    [job EXCEPT !.processedPages = @ + 1,
                !.progress = ProgressOf[totalPages][job.processedPages + 1]]

\* index.js:284-288, the per-page catch
PageErrorFatal(job, pageNum, message) ==
    [job EXCEPT !.status = "failed",
                !.errors = Some(Append(IF Present(@) THEN @[1] ELSE << >>,
                                       << pageNum, message >>))]

PageErrorUnrecorded(job, pageNum, message) == job

PageErrorCounted(job, pageNum, message) ==
    [job EXCEPT !.processedPages = @ + 1,
                !.errors = Some(Append(IF Present(@) THEN @[1] ELSE << >>,
                                       << pageNum, message >>))]

PageError(job, pageNum, message) ==
    [job EXCEPT !.errors = Some(Append(IF Present(@) THEN @[1] ELSE << >>,
                                       << pageNum, message >>))]

\* index.js:293, (a / b).toFixed(2): NaN for 0/0, Infinity for x/0, else two decimals
ToFixed2Ratio(a, b) ==
    IF b = 0
    THEN [kind |-> IF a = 0 THEN "NaN" ELSE "Infinity", hundredths |-> 0]
    ELSE [kind |-> "finite", hundredths |-> (a * 200 + b) \div (2 * b)]

\* index.js:236 and 298
OutputPath(directoryId) == << "images", directoryId >>

\* index.js:300-305
CompleteJobNoPath(job, ratio) ==
    [job EXCEPT !.status = "completed", !.endTime = Some("Date"),
                !.progress = 100, !.compressionRatio = Some(ratio)]

CompleteJobKeepProgress(job, ratio) ==
    [job EXCEPT !.status = "completed",
                !.outputPath = Some(OutputPath(job.directoryId)),
                !.endTime = Some("Date"),
                !.compressionRatio = Some(ratio)]

CompleteJobStuck(job, ratio) ==
    [job EXCEPT !.outputPath = Some(OutputPath(job.directoryId)),
                !.endTime = Some("Date"),
                !.progress = 100, !.compressionRatio = Some(ratio)]

CompleteJob(job, ratio) ==
    [job EXCEPT !.status = "completed",
                !.outputPath = Some(OutputPath(job.directoryId)),
                !.endTime = Some("Date"),
                !.progress = 100, !.compressionRatio = Some(ratio)]

(* --------------------------- pipeline locals ---------------------------- *)

\* the locals of one convertPDFToImages call, before its first step; held is the
\* set of pages whose page object was fetched from pdfDocument and not cleaned up
NewProc ==
    [ pc |-> "scheduled", files |-> << >>, data |-> None, totalPages |-> 0,
      pageNum |-> 0, totalOriginalSize |-> 0, totalCompressedSize |-> 0,
      buffer |-> None, held |-> {} ]

Terminal(status) == status \in {"completed", "failed"}

(* ------------------------ batch converter script ------------------------ *)

\* the locals of main and of its current convertPDFToImages call: the listing, the
\* index of the PDF in hand, its page loop, and what the run has produced so far
BatchRun(pc, pdfFiles) ==
    [ pc |-> pc, pdfFiles |-> pdfFiles, index |-> 0, totalPages |-> 0, pageNum |-> 0,
      attempted |-> {}, images |-> {}, errors |-> {} ]

\* the script is not running: the service of index.js is
NotRun == BatchRun("notRun", << >>)

\* part_000:92-97: the listings getAllPDFFiles may return, each PDF given by what
\* opening it yields (a number of pages, or a rejection)
getAllPDFFiles == UNION { [1 .. n -> Documents] : n \in 0 .. MaxPdfs }

\* part_000:119 and 129-131: main's loop goes to the next PDF, or ends
NextPdf(b) ==
    IF b.index < Len(b.pdfFiles)
    THEN [b EXCEPT !.index = @ + 1, !.pc = "convert", !.totalPages = 0, !.pageNum = 0]
    ELSE [b EXCEPT !.pc = "returned", !.totalPages = 0, !.pageNum = 0]

\* part_000:86-89 and 124-128, were the error of one PDF to end the run
PdfFailedAborting(b) ==
    [b EXCEPT !.errors = @ \cup {<< "processing", b.index, 0 >>}, !.pc = "exit1"]

\* part_000:86-89 and 124-128: convertPDFToImages rethrows, main logs and continues
PdfFailed(b) ==
    NextPdf([b EXCEPT !.errors = @ \cup {<< "processing", b.index, 0 >>}])

\* part_000:55 and 84-85: the loop test for page n of the PDF in hand
BatchLoop(b, n) ==
    IF n <= b.totalPages
    THEN [b EXCEPT !.pageNum = n, !.pc = "getPage"]
    ELSE NextPdf(b)

\* part_000:104-117 and 133-136: the directories are made and the PDFs listed, or
\* one of the two throws and the process exits with 1
main ==
    /\ batch.pc = "main"
    /\ \/ batch' = [batch EXCEPT !.pc = "exit1"]
       \/ batch' = NextPdf(batch)
    /\ UNCHANGED << jobCounter, conversionJobs, inputDir, outputDir, immediates, proc,
                    responses >>

\* part_000:119-122 and 31-55: the PDF in hand is checked, read and opened and its
\* subdirectory made, or one of these throws
BatchConvert ==
    /\ batch.pc = "convert"
    /\ LET b == [batch EXCEPT !.attempted = @ \cup {batch.index}]
           document == batch.pdfFiles[batch.index]
       IN \/ /\ document # Corrupt
             /\ batch' = BatchLoop([b EXCEPT !.totalPages = document], 1)
          \/ batch' = PdfFailed(b)
    /\ UNCHANGED << jobCounter, conversionJobs, inputDir, outputDir, immediates, proc,
                    responses >>

\* part_000:56-67: the page is fetched and its canvas made, or either throws,
\* outside the per-page try
BatchGetPage ==
    /\ batch.pc = "getPage"
    /\ \/ batch' = [batch EXCEPT !.pc = "render"]
       \/ batch' = PdfFailed(batch)
    /\ UNCHANGED << jobCounter, conversionJobs, inputDir, outputDir, immediates, proc,
                    responses >>

\* part_000:69-81: the page is rendered and its image written, or the per-page
\* catch logs the error and the loop continues
BatchRender ==
    /\ batch.pc = "render"
    /\ \/ batch' = BatchLoop([batch EXCEPT !.images = @ \cup {<< batch.index, batch.pageNum >>}],
                              batch.pageNum + 1)
       \/ batch' = BatchLoop([batch EXCEPT !.errors =
                                  @ \cup {<< "rendering", batch.index, batch.pageNum >>}],
                              batch.pageNum + 1)
    /\ UNCHANGED << jobCounter, conversionJobs, inputDir, outputDir, immediates, proc,
                    responses >>

(* -------------------------------- Init ---------------------------------- *)

\* index.js:38-39 and 430-435: no job, pdfs/ cleaned, images/ without subdirectory
Init ==
    /\ jobCounter = 0
    /\ conversionJobs = << >>
    /\ inputDir = [f \in DirIds |-> None]
    /\ outputDir = [d \in DirIds |-> EmptyDir]
    /\ immediates = << >>
    /\ proc = << >>
    /\ responses = << >>
    /\ batch = NotRun

(* --------------------------- HTTP handlers ------------------------------ *)

\* index.js:363-367
UploadResponse(jobId, directoryId) ==
    [ code |-> 200, message |-> "PDF uploaded successfully, conversion started",
      jobId |-> jobId, directoryId |-> directoryId ]

\* index.js:342 without the increment being stored
UploadReusedId(directoryId, fileId, document) ==
    /\ Len(conversionJobs) < MaxJobs
    /\ LET jobId == jobCounter + 1 IN
        /\ inputDir' = [inputDir EXCEPT ![fileId] = Some(document)]
        /\ conversionJobs' = Append(conversionJobs, NewJob(jobId, directoryId, fileId))
        /\ proc' = Append(proc, NewProc)
        /\ immediates' = Append(immediates, Len(conversionJobs) + 1)
        /\ responses' = Append(responses, UploadResponse(jobId, directoryId))
    /\ UNCHANGED << jobCounter, outputDir, batch >>

\* index.js:327-372 with the multer storage of index.js:24-33: the file is stored
\* as pdfs/<fileId>.pdf (fileId is the directory id, or the time when the field was
\* not parsed yet), then the Job Record is created, its pipeline is handed to
\* setImmediate and the 200 answer is sent, all in one turn of the event loop
Upload(directoryId, fileId, document) ==
    /\ jobCounter < MaxJobs
    /\ LET jobId == jobCounter + 1 IN
        /\ jobCounter' = jobId
        /\ inputDir' = [inputDir EXCEPT ![fileId] = Some(document)]
        /\ conversionJobs' = Append(conversionJobs, NewJob(jobId, directoryId, fileId))
        /\ proc' = Append(proc, NewProc)
        /\ immediates' = Append(immediates, jobId)
        /\ responses' = Append(responses, UploadResponse(jobId, directoryId))
    /\ UNCHANGED << outputDir, batch >>

\* index.js:387-400
JobResponse(job) ==
    [ id |-> job.id, directoryId |-> job.directoryId, status |-> job.status,
      progress |-> job.progress, processedPages |-> job.processedPages,
      totalPages |-> job.totalPages, outputPath |-> job.outputPath,
      startTime |-> job.startTime, endTime |-> job.endTime, error |-> job.error,
      errors |-> job.errors, compressionRatio |-> job.compressionRatio ]

\* index.js:375-404: the answer to GET /api/jobs/:jobId in the current state
GetJobResponse(jobId) ==
    IF jobId \in JobIds
    THEN [ code |-> 200, body |-> JobResponse(conversionJobs[jobId]) ]
    ELSE [ code |-> 404, body |-> [ error |-> "Job not found" ] ]

\* index.js:375-404: the handler reads the tracker and writes nothing
GetJob(jobId) ==
    /\ GetJobResponse(jobId).code \in {200, 404}
    /\ UNCHANGED vars

\* index.js:92-107: every file of pdfs/ is unlinked
cleanupDirectories == [f \in DirIds |-> None]

\* index.js:408-416: the answer, cleanupDirectories having thrown or not
CleanupResponse(threw) ==
    IF threw
    THEN [ code |-> 500, body |-> [ error |-> "message" ] ]
    ELSE [ code |-> 200,
           body |-> [ message |-> "All temporary directories cleaned successfully" ] ]

\* index.js:103-106: cleanupDirectories catches and logs every error of its body
cleanupDirectoriesThrows == FALSE

\* index.js:407-417, were the images removed with the input files
CleanupEverything ==
    /\ CleanupResponse(cleanupDirectoriesThrows).code = 200
    /\ inputDir' = cleanupDirectories
    /\ outputDir' = [d \in DirIds |-> [outputDir[d] EXCEPT !.files = << >>]]
    /\ UNCHANGED << jobCounter, conversionJobs, immediates, proc, responses, batch >>

\* index.js:407-417, were the tracker emptied with the input directory
CleanupEvictsJobs ==
    /\ inputDir' = cleanupDirectories
    /\ conversionJobs' = << >>
    /\ UNCHANGED << jobCounter, outputDir, immediates, proc, responses, batch >>

\* index.js:407-417
Cleanup ==
    /\ CleanupResponse(cleanupDirectoriesThrows).code = 200
    /\ inputDir' = cleanupDirectories
    /\ UNCHANGED << jobCounter, conversionJobs, outputDir, immediates, proc, responses,
                    batch >>

(* ------------------------- conversion pipeline -------------------------- *)

Length(buffer) == IF buffer = "raw" THEN RawLen ELSE OptLen

\* the locals of a call that has returned or thrown
Returned == [NewProc EXCEPT !.pc = "done"]

\* index.js:310-321, were the catch to fail every job still in the tracker as pending
\* or processing instead of looking up its own jobId
ThrowFailingOthers(j, message) ==
    /\ conversionJobs' = [k \in DOMAIN conversionJobs |->
                            IF conversionJobs[k].status \in {"pending", "processing"}
                            THEN FailJob(conversionJobs[k], message)
                            ELSE conversionJobs[k]]
    /\ proc' = [proc EXCEPT ![j] = Returned]

\* index.js:310-321: the call of job j throws `message` out of the outer try
Throw(j, message) ==
    /\ conversionJobs' = [conversionJobs EXCEPT ![j] = FailJob(@, message)]
    /\ proc' = [proc EXCEPT ![j] = Returned]

\* index.js:244-246 and 292-309, were the loop to step over a page
LoopJobSkipping(job, p, n) ==
    IF n <= p.totalPages
    THEN [job EXCEPT !.currentPage = Some(n + 1)]
    ELSE CompleteJob(job, ToFixed2Ratio(p.totalOriginalSize, p.totalCompressedSize))

\* index.js:244-246 and 292-309: the loop test for page n, and what follows it
LoopJob(job, p, n) ==
    IF n <= p.totalPages
    THEN [job EXCEPT !.currentPage = Some(n)]
    ELSE CompleteJob(job, ToFixed2Ratio(p.totalOriginalSize, p.totalCompressedSize))

LoopProc(p, n) ==
    IF n <= p.totalPages
    THEN [p EXCEPT !.pageNum = n, !.pc = "getPage", !.buffer = None]
    ELSE Returned

\* index.js:358-359 and 205-211: the setImmediate callback, up to the first await
Start(j) ==
    /\ immediates # << >>
    /\ Head(immediates) = j
    /\ immediates' = Tail(immediates)
    /\ conversionJobs' = [conversionJobs EXCEPT ![j] = MarkProcessing(@)]
    /\ proc' = [proc EXCEPT ![j].pc = "cleanAccess"]
    /\ UNCHANGED << batch, responses, jobCounter, inputDir, outputDir >>

\* index.js:115-120
CleanAccess(j) ==
    /\ proc[j].pc = "cleanAccess"
    /\ proc' = [proc EXCEPT ![j].pc =
                  IF outputDir[conversionJobs[j].directoryId].exists
                  THEN "cleanReaddir" ELSE "srcAccess"]
    /\ UNCHANGED << batch, responses, jobCounter, conversionJobs, inputDir, outputDir, immediates >>

\* index.js:123
CleanReaddir(j) ==
    /\ proc[j].pc = "cleanReaddir"
    /\ \E listing \in Listings(FileNames(outputDir[conversionJobs[j].directoryId])) :
         proc' = [proc EXCEPT ![j].files = listing,
                              ![j].pc = IF listing = << >> THEN "srcAccess" ELSE "cleanUnlink"]
    /\ UNCHANGED << batch, responses, jobCounter, conversionJobs, inputDir, outputDir, immediates >>

\* index.js:126-134: one unlink; of a file that is gone it throws
CleanUnlink(j) ==
    /\ proc[j].pc = "cleanUnlink"
    /\ LET d == conversionJobs[j].directoryId
           name == Head(proc[j].files)
           rest == Tail(proc[j].files)
       IN IF name \in FileNames(outputDir[d])
          THEN /\ outputDir' = [outputDir EXCEPT ![d] = Unlink(@, name)]
               /\ proc' = [proc EXCEPT ![j].files = rest,
                                       ![j].pc = IF rest = << >> THEN "srcAccess"
                                                 ELSE "cleanUnlink"]
               /\ UNCHANGED conversionJobs
          ELSE /\ Throw(j, "ENOENT: no such file or directory, unlink")
               /\ UNCHANGED outputDir
    /\ UNCHANGED << batch, responses, jobCounter, inputDir, immediates >>

\* index.js:217-218
MissingFile(job, message) == [job EXCEPT !.status = "failed", !.error = Some(message)]

\* index.js:214-220
SrcAccess(j) ==
    /\ proc[j].pc = "srcAccess"
    /\ IF Present(inputDir[conversionJobs[j].pdfPath])
       THEN /\ proc' = [proc EXCEPT ![j].pc = "readFile"]
            /\ UNCHANGED conversionJobs
       ELSE /\ conversionJobs' = [conversionJobs EXCEPT ![j] =
                   FailJob(MissingFile(@, "PDF file not found at path"),
                           "PDF file not found at path")]
            /\ proc' = [proc EXCEPT ![j] = Returned]
    /\ UNCHANGED << batch, responses, jobCounter, inputDir, outputDir, immediates >>

\* index.js:223
ReadFile(j) ==
    /\ proc[j].pc = "readFile"
    /\ IF Present(inputDir[conversionJobs[j].pdfPath])
       THEN /\ proc' = [proc EXCEPT ![j].data = inputDir[conversionJobs[j].pdfPath],
                                    ![j].pc = "getDocument"]
            /\ UNCHANGED conversionJobs
       ELSE Throw(j, "ENOENT: no such file or directory, open")
    /\ UNCHANGED << batch, responses, jobCounter, inputDir, outputDir, immediates >>

\* index.js:224-237: the document opens or is rejected
GetDocument(j) ==
    /\ proc[j].pc = "getDocument"
    /\ LET document == proc[j].data[1] IN
         IF document = Corrupt
         THEN Throw(j, "Invalid PDF structure")
         ELSE /\ conversionJobs' = [conversionJobs EXCEPT ![j] = SetTotalPages(@, document)]
              /\ proc' = [proc EXCEPT ![j].totalPages = document, ![j].data = None,
                                      ![j].pc = "mkdir"]
    /\ UNCHANGED << batch, responses, jobCounter, inputDir, outputDir, immediates >>

\* index.js:237-246: the subdirectory is made and the loop is entered
Mkdir(j) ==
    /\ proc[j].pc = "mkdir"
    /\ outputDir' = [outputDir EXCEPT ![conversionJobs[j].directoryId].exists = TRUE]
    /\ conversionJobs' = [conversionJobs EXCEPT ![j] = LoopJob(@, proc[j], 1)]
    /\ proc' = [proc EXCEPT ![j] = LoopProc(@, 1)]
    /\ UNCHANGED << batch, responses, jobCounter, inputDir, immediates >>

\* index.js:248-261: the page is fetched and the canvas made, or either throws
GetPage(j) ==
    /\ proc[j].pc = "getPage"
    /\ \/ /\ proc' = [proc EXCEPT ![j].pc = "render",
                                  ![j].held = @ \cup {proc[j].pageNum}]
          /\ UNCHANGED conversionJobs
       \/ Throw(j, "getPage failed")
    /\ UNCHANGED << batch, responses, jobCounter, inputDir, outputDir, immediates >>

\* index.js:264-271 and 284-288: the page renders, or the per-page catch runs
Render(j) ==
    /\ proc[j].pc = "render"
    /\ \/ /\ proc' = [proc EXCEPT ![j].buffer = Some("raw"),
                                  ![j].totalOriginalSize = @ + Length("raw"),
                                  ![j].pc = "optimize"]
          /\ UNCHANGED conversionJobs
       \/ /\ conversionJobs' = [conversionJobs EXCEPT ![j] =
                LoopJob(PageError(@, proc[j].pageNum, "render failed"),
                        proc[j], proc[j].pageNum + 1)]
          /\ proc' = [proc EXCEPT ![j] = LoopProc(@, proc[j].pageNum + 1)]
    /\ UNCHANGED << batch, responses, jobCounter, inputDir, outputDir, immediates >>

\* index.js:138-201: the optimized buffer, or the buffer given when sharp throws
optimizeImage(imageBuffer, sharpThrows) ==
    IF sharpThrows THEN imageBuffer ELSE "optimized"

\* index.js:271-276, were a failure of sharp to reach the per-page catch
OptimizeSurfacing(j) ==
    /\ proc[j].pc = "optimize"
    /\ \E sharpThrows \in BOOLEAN :
         IF sharpThrows
         THEN /\ conversionJobs' = [conversionJobs EXCEPT ![j] =
                    LoopJob(PageError(@, proc[j].pageNum, "optimize failed"),
                            proc[j], proc[j].pageNum + 1)]
              /\ proc' = [proc EXCEPT ![j] = LoopProc(@, proc[j].pageNum + 1)]
         ELSE /\ proc' = [proc EXCEPT ![j].buffer = Some("optimized"),
                                      ![j].totalCompressedSize = @ + Length("optimized"),
                                      ![j].pc = "writeFile"]
              /\ UNCHANGED conversionJobs
    /\ UNCHANGED << batch, responses, jobCounter, inputDir, outputDir, immediates >>

\* index.js:271-276
Optimize(j) ==
    /\ proc[j].pc = "optimize"
    /\ \E sharpThrows \in BOOLEAN :
         LET optimizedImageData == optimizeImage(proc[j].buffer[1], sharpThrows) IN
           proc' = [proc EXCEPT ![j].buffer = Some(optimizedImageData),
                                ![j].totalCompressedSize = @ + Length(optimizedImageData),
                                ![j].pc = "writeFile"]
    /\ UNCHANGED << batch, responses, jobCounter, conversionJobs, inputDir, outputDir, immediates >>

\* index.js:283, page.cleanup(): the page object of pageNum gives up what it holds
PageCleanup(p) == [p EXCEPT !.held = @ \ {p.pageNum}]

\* index.js:275-288: the page file is written and the page cleaned up, or the write
\* throws into the per-page catch, which cleans up nothing
WritePage(j) ==
    /\ proc[j].pc = "writeFile"
    /\ LET d == conversionJobs[j].directoryId
           n == proc[j].pageNum
       IN \/ /\ outputDir' = [outputDir EXCEPT ![d] =
                   WriteFile(@, PageFileName(n, imageFormat),
                             [writer |-> j, bytes |-> proc[j].buffer[1]])]
             /\ conversionJobs' = [conversionJobs EXCEPT ![j] =
                   LoopJob(PageDone(@, proc[j].totalPages), proc[j], n + 1)]
             /\ proc' = [proc EXCEPT ![j] = LoopProc(PageCleanup(@), n + 1)]
          \/ /\ conversionJobs' = [conversionJobs EXCEPT ![j] =
                   LoopJob(PageError(@, n, "write failed"), proc[j], n + 1)]
             /\ proc' = [proc EXCEPT ![j] = LoopProc(@, n + 1)]
             /\ UNCHANGED outputDir
    /\ UNCHANGED << batch, responses, jobCounter, inputDir, immediates >>

\* one step of the convertPDFToImages call of job j
Pipeline(j) ==
    \/ Start(j)
    \/ CleanAccess(j)
    \/ CleanReaddir(j)
    \/ CleanUnlink(j)
    \/ SrcAccess(j)
    \/ ReadFile(j)
    \/ GetDocument(j)
    \/ Mkdir(j)
    \/ GetPage(j)
    \/ Render(j)
    \/ Optimize(j)
    \/ WritePage(j)

(* ---------------------------- specification ----------------------------- *)

Next ==
    \/ \E d \in DirIds, f \in DirIds, document \in Documents : Upload(d, f, document)
    \/ \E jobId \in 1 .. MaxJobs + 1 : GetJob(jobId)
    \/ Cleanup
    \/ \E j \in JobIds : Start(j)
    \/ \E j \in JobIds : CleanAccess(j)
    \/ \E j \in JobIds : CleanReaddir(j)
    \/ \E j \in JobIds : CleanUnlink(j)
    \/ \E j \in JobIds : SrcAccess(j)
    \/ \E j \in JobIds : ReadFile(j)
    \/ \E j \in JobIds : GetDocument(j)
    \/ \E j \in JobIds : Mkdir(j)
    \/ \E j \in JobIds : GetPage(j)
    \/ \E j \in JobIds : Render(j)
    \/ \E j \in JobIds : Optimize(j)
    \/ \E j \in JobIds : WritePage(j)

Spec == Init /\ [][Next]_vars

\* part_000:139-140: the batch converter is run on an input directory
BatchInit ==
    /\ jobCounter = 0
    /\ conversionJobs = << >>
    /\ inputDir = [f \in DirIds |-> None]
    /\ outputDir = [d \in DirIds |-> EmptyDir]
    /\ immediates = << >>
    /\ proc = << >>
    /\ responses = << >>
    /\ batch \in { BatchRun("main", pdfFiles) : pdfFiles \in getAllPDFFiles }

BatchNext ==
    \/ main
    \/ BatchConvert
    \/ BatchGetPage
    \/ BatchRender

BatchSpec == BatchInit /\ [][BatchNext]_vars

\* index.js:244-276: the service with one job, of directory id and file name 1, about
\* to write page n of a document of t pages after every earlier page was processed
\* and optimized; the source file may have been cleaned up by then
MidLoopJob(n, t) ==
    [NewJob(1, 1, 1) EXCEPT !.status = "processing", !.totalPages = t,
                            !.processedPages = n - 1,
                            !.progress = IF n = 1 THEN 0 ELSE ProgressOf[t][n - 1],
                            !.currentPage = Some(n)]

MidLoopProc(n, t) ==
    [NewProc EXCEPT !.pc = "writeFile", !.totalPages = t, !.pageNum = n,
                    !.totalOriginalSize = n * Length("raw"),
                    !.totalCompressedSize = n * Length("optimized"),
                    !.buffer = Some("optimized"), !.held = {n}]

MidLoopDir(n) ==
    [exists |-> TRUE,
     files |-> [name \in { PageFileName(m, imageFormat) : m \in 1 .. n - 1 } |->
                  [writer |-> 1, bytes |-> "optimized"]]]

PageInit ==
    \E t \in 1 .. MaxTotal : \E n \in 1 .. t :
        /\ jobCounter = 1
        /\ conversionJobs = << MidLoopJob(n, t) >>
        /\ inputDir = cleanupDirectories
        /\ outputDir = [d \in DirIds |-> IF d = 1 THEN MidLoopDir(n) ELSE EmptyDir]
        /\ immediates = << >>
        /\ proc = << MidLoopProc(n, t) >>
        /\ responses = << UploadResponse(1, 1) >>
        /\ batch = NotRun

PageNext == \E j \in JobIds : WritePage(j)

PageSpec == PageInit /\ [][PageNext]_vars

\* every scheduled callback and every awaited call of a pipeline is eventually run
FairSpec == Spec /\ \A j \in 1 .. MaxJobs : WF_vars(j \in JobIds /\ Pipeline(j))

(* ------------------------------- claims --------------------------------- *)

Status(j) == conversionJobs[j].status

\* one step of the status field: it stays, or moves one place forward
Forward(from, to) ==
    \/ to = from
    \/ from = "pending" /\ to = "processing"
    \/ from = "processing" /\ to \in {"completed", "failed"}

\* C1: in every step, under every interleaving of uploads, pipeline steps, status
\* queries and cleanups, the status of every job stays or moves one place forward
\* along pending -> processing -> completed | failed (a new job starts pending):
\* it never moves backward, never skips processing, never leaves a terminal state.
C1_StatusForwardOnly ==
    [][ /\ \A j \in JobIds : Forward(Status(j), conversionJobs'[j].status)
        /\ \A j \in (DOMAIN conversionJobs') \ JobIds : conversionJobs'[j].status = "pending"
      ]_vars

\* a job has completed and another has failed
C1_Witness ==
    \E j, k \in JobIds : Status(j) = "completed" /\ Status(k) = "failed"

\* C2: under fair scheduling of every pipeline (each scheduled callback and each
\* awaited call eventually runs), every job that was created eventually is
\* completed or failed.
C2_EventuallyTerminal ==
    \A j \in 1 .. MaxJobs : [](j \in JobIds => <>(j \in JobIds /\ Terminal(Status(j))))

\* every job the bound admits was created and is terminal
C2_Witness ==
    /\ jobCounter = MaxJobs
    /\ \A j \in JobIds : Terminal(Status(j))

Job(j) == conversionJobs[j]

InFlight(j) == Status(j) \in {"pending", "processing"}

\* the per-page error strings of a Job Record, an absent sequence counting as empty
ErrorsOf(job) == IF Present(job.errors) THEN job.errors[1] ELSE << >>

\* the pages a Job Record holds a per-page error for
ErrorPages(job) == { ErrorsOf(job)[i][1] : i \in 1 .. Len(ErrorsOf(job)) }

\* the pipeline of job j takes this step
Steps(j) == proc'[j] # proc[j]

\* the document of job j has not been opened yet
NotOpened(j) ==
    proc[j].pc \in {"scheduled", "cleanAccess", "cleanReaddir", "cleanUnlink",
                    "srcAccess", "readFile", "getDocument"}

\* C3: in every reachable state processedPages <= totalPages for every job, both
\* are 0 until the job's document has been opened, and no step decreases the
\* processedPages of a job.
C3_ProcessedPagesBounded ==
    /\ [](\A j \in JobIds :
            /\ Job(j).processedPages <= Job(j).totalPages
            /\ NotOpened(j) => Job(j).totalPages = 0 /\ Job(j).processedPages = 0)
    /\ [][\A j \in JobIds : conversionJobs'[j].processedPages >= Job(j).processedPages]_vars

\* a job has processed a page and has not processed all of its pages
C3_Witness ==
    \E j \in JobIds :
        /\ Job(j).processedPages >= 1
        /\ Job(j).processedPages < Job(j).totalPages

\* C4: in every state, the answer to a status query of a job carries an outputPath
\* if and only if it carries status completed.
C4_OutputPathIffCompleted ==
    \A j \in JobIds :
        Present(GetJobResponse(j).body.outputPath)
            <=> GetJobResponse(j).body.status = "completed"

\* a completed job answers with an outputPath while a failed job answers without
C4_Witness ==
    \E j, k \in JobIds :
        /\ GetJobResponse(j).body.status = "completed"
        /\ Present(GetJobResponse(j).body.outputPath)
        /\ GetJobResponse(k).body.status = "failed"
        /\ ~Present(GetJobResponse(k).body.outputPath)

\* the step in which job j becomes completed
Completes(j) == Status(j) # "completed" /\ conversionJobs'[j].status = "completed"

\* C5 (the claim, taken at the moment of completion): when a job becomes completed,
\* its output subdirectory holds the file <n>.<format> of every page n in
\* 1..totalPages that the job processed successfully and no file of a page it
\* skipped, other jobs with the same directoryId being in flight or not.
C5_FilesMatchProcessedPages ==
    [][\A j \in JobIds :
         Completes(j) =>
            \A n \in 1 .. conversionJobs'[j].totalPages :
                (n \notin ErrorPages(conversionJobs'[j]))
                    <=> (PageFileName(n, imageFormat)
                            \in FileNames(outputDir'[Job(j).directoryId]))
      ]_vars

\* C6 (the claim): two jobs in flight at the same time operate on different output
\* subdirectories: whenever a pipeline step deletes or writes a file of a
\* subdirectory, no other job in flight has that subdirectory as its own.
C6_DisjointSubdirectories ==
    [][\A j \in JobIds :
         (Steps(j) /\ outputDir'[Job(j).directoryId].files # outputDir[Job(j).directoryId].files)
            => \A k \in JobIds \ {j} :
                  ~(InFlight(k) /\ Job(k).directoryId = Job(j).directoryId)
      ]_vars

\* the pipeline of job j has not read its source file yet
NotYetRead(j) ==
    proc[j].pc \in {"scheduled", "cleanAccess", "cleanReaddir", "cleanUnlink",
                    "srcAccess", "readFile"}

SourceAbsent(j) == ~Present(inputDir[Job(j).pdfPath])

\* C7 (the claim as stated): once the source file of a job is gone after the job
\* was created and before its pipeline has read it, the job never is completed.
C7_RemovedSourceNeverCompletes ==
    \A j \in 1 .. MaxJobs :
        []((j \in JobIds /\ NotYetRead(j) /\ SourceAbsent(j))
              => [](j \in JobIds /\ Status(j) # "completed"))

\* C7 (amended): when the source file of a job is absent at the moment its pipeline
\* checks for it (fs.access) or reads it (fs.readFile), that step makes the job
\* failed with a non-empty error, and a failed job stays failed.
C7_AbsentSourceFails ==
    [][\A j \in JobIds :
         /\ (proc[j].pc \in {"srcAccess", "readFile"} /\ SourceAbsent(j) /\ Steps(j))
               => /\ conversionJobs'[j].status = "failed"
                  /\ Present(conversionJobs'[j].error)
                  /\ conversionJobs'[j].error # Some("")
         /\ Status(j) = "failed" => conversionJobs'[j].status = "failed"
      ]_vars

\* a job has failed for its missing source file
C7_Witness ==
    \E j \in JobIds :
        /\ Status(j) = "failed"
        /\ Job(j).error = Some("PDF file not found at path")
        /\ SourceAbsent(j)

\* C8: the step in which the render of page n of a job fails appends one error for
\* page n to errors, leaves processedPages as it is, does not make the job failed,
\* and goes on to page n+1, or completes the job when n was the last page.
C8_RenderFailureNotFatal ==
    [][\A j \in JobIds :
         (proc[j].pc = "render" /\ Steps(j) /\ proc'[j].pc # "optimize") =>
            LET n == proc[j].pageNum
                job == conversionJobs'[j]
            IN /\ Len(ErrorsOf(job)) = Len(ErrorsOf(Job(j))) + 1
               /\ SubSeq(ErrorsOf(job), 1, Len(ErrorsOf(Job(j)))) = ErrorsOf(Job(j))
               /\ ErrorsOf(job)[Len(ErrorsOf(job))][1] = n
               /\ job.processedPages = Job(j).processedPages
               /\ job.status # "failed"
               /\ IF n < proc[j].totalPages
                  THEN /\ job.status = "processing"
                       /\ job.currentPage = Some(n + 1)
                       /\ proc'[j].pc = "getPage"
                       /\ proc'[j].pageNum = n + 1
                  ELSE job.status = "completed"
      ]_vars

\* a job has completed although one of its pages failed to render
C8_Witness ==
    \E j \in JobIds :
        /\ Status(j) = "completed"
        /\ \E i \in 1 .. Len(ErrorsOf(Job(j))) : ErrorsOf(Job(j))[i][2] = "render failed"
        /\ Job(j).processedPages >= 1

\* C9 (the claim): a pipeline run for a directoryId deletes what its subdirectory
\* held before it writes, so that when the job of a re-upload (a job whose
\* directoryId an earlier job had) completes, the subdirectory holds only files
\* this job wrote and no page file of the earlier run.
C9_OnlyFilesOfTheNewRun ==
    [][\A j \in JobIds :
         (Completes(j) /\ \E k \in 1 .. j - 1 : Job(k).directoryId = Job(j).directoryId) =>
            LET dir == outputDir'[Job(j).directoryId]
            IN \A name \in FileNames(dir) : dir.files[name].writer = j
      ]_vars

\* the 200 answer to the upload that created job j is among the answers sent
Answered(sent, j) == \E i \in 1 .. Len(sent) : sent[i].code = 200 /\ sent[i].jobId = j

\* C10: the step that creates a job sends the 200 answer carrying its jobId, and
\* in the state after that step the Job Record is in the tracker with status
\* pending and its pipeline has not taken a step; a job leaves pending only in a
\* later step, for processing.
C10_ResponseBeforePipeline ==
    [][ /\ \A j \in (DOMAIN conversionJobs') \ JobIds : Answered(responses', j)
        /\ \A j \in 1 .. MaxJobs :
              (Answered(responses', j) /\ ~Answered(responses, j))
                 => /\ j \in DOMAIN conversionJobs'
                    /\ conversionJobs'[j].status = "pending"
                    /\ proc'[j].pc = "scheduled"
        /\ \A j \in JobIds :
              (Status(j) = "pending" /\ conversionJobs'[j].status # "pending")
                 => /\ Answered(responses, j)
                    /\ conversionJobs'[j].status = "processing"
      ]_vars

\* a job is answered and still pending while an earlier job is being processed
C10_Witness ==
    \E j, k \in JobIds :
        /\ Answered(responses, j)
        /\ Status(j) = "pending"
        /\ proc[j].pc = "scheduled"
        /\ Status(k) = "processing"

\* C11: job ids are unique and strictly increasing in creation order: no two Job
\* Records carry the same id, each is stored under its own id, the ids answered
\* to uploads increase strictly in the order of the answers, and the step that
\* creates a job gives it an id larger than every id assigned before, which no
\* later step changes.
C11_IdsUniqueIncreasing ==
    /\ [](/\ \A j, k \in JobIds : j # k => Job(j).id # Job(k).id
          /\ \A j \in JobIds : Job(j).id = j /\ Job(j).id <= jobCounter
          /\ \A a, b \in 1 .. Len(responses) :
                a < b => responses[a].jobId < responses[b].jobId)
    /\ [][ /\ \A j \in (DOMAIN conversionJobs') \ JobIds :
                \A k \in JobIds : conversionJobs'[j].id > Job(k).id
          /\ \A j \in JobIds : conversionJobs'[j].id = Job(j).id
        ]_vars

\* two jobs were created, the later one with the larger id
C11_Witness ==
    /\ Len(responses) = 2
    /\ responses[1].jobId < responses[2].jobId
    /\ Job(responses[1].jobId).id < Job(responses[2].jobId).id

\* the ids a status query may carry
QueryIds == 1 .. MaxJobs + 1

\* C12: a Job Record is never removed: an id that a status query answers with 200
\* is answered with 200 after every step (upload, pipeline step, cleanup); a query
\* is answered with 404 exactly when no upload was answered with that id; and a
\* status query leaves every Job Record as it is.
C12_JobsNeverRemoved ==
    /\ [](\A id \in QueryIds :
            /\ GetJobResponse(id).code \in {200, 404}
            /\ GetJobResponse(id).code = 404 <=> ~Answered(responses, id))
    /\ [][ /\ \A id \in QueryIds :
                GetJobResponse(id).code = 200 => GetJobResponse(id)'.code = 200
          /\ (\E id \in QueryIds : GetJob(id)) => conversionJobs' = conversionJobs
        ]_vars

\* a terminal job whose source a cleanup has removed is still answered with 200,
\* and the next id, not assigned yet, with 404
C12_Witness ==
    \E j \in JobIds :
        /\ Terminal(Status(j))
        /\ SourceAbsent(j)
        /\ GetJobResponse(j).code = 200
        /\ GetJobResponse(jobCounter + 1).code = 404

\* the page file of page n that job j wrote holds these bytes
PageFileOf(dirs, j, n, bytes) ==
    LET dir == dirs[Job(j).directoryId] IN
        /\ PageFileName(n, imageFormat) \in FileNames(dir)
        /\ dir.files[PageFileName(n, imageFormat)] = [writer |-> j, bytes |-> bytes]

\* C13: a failure inside the optimizer never aborts the page or the job and is not
\* recorded: optimizeImage then returns the raw bytes it was given; the optimize
\* step changes no Job Record and always goes on to the write of the same page,
\* holding the raw bytes or the optimized ones; and the step that writes the page
\* file of raw bytes writes exactly those bytes, increments processedPages and
\* leaves errors and error as they were.
C13_OptimizerFailureInvisible ==
    /\ [](optimizeImage("raw", TRUE) = "raw")
    /\ [][\A j \in JobIds :
            /\ (proc[j].pc = "optimize" /\ Steps(j)) =>
                  /\ conversionJobs' = conversionJobs
                  /\ proc'[j].pc = "writeFile"
                  /\ proc'[j].pageNum = proc[j].pageNum
                  /\ proc'[j].buffer \in {Some("raw"), Some("optimized")}
            /\ (/\ proc[j].pc = "writeFile" /\ Steps(j)
                /\ proc[j].buffer = Some("raw")
                /\ outputDir' # outputDir) =>
                  /\ PageFileOf(outputDir', j, proc[j].pageNum, "raw")
                  /\ conversionJobs'[j].processedPages = Job(j).processedPages + 1
                  /\ conversionJobs'[j].errors = Job(j).errors
                  /\ conversionJobs'[j].error = Job(j).error
                  /\ conversionJobs'[j].status # "failed"
        ]_vars

\* a job has completed with every page processed and no error recorded, and the
\* file of one of its pages holds the raw bytes the optimizer fell back to
C13_Witness ==
    \E j \in JobIds :
        /\ Status(j) = "completed"
        /\ Job(j).processedPages = Job(j).totalPages
        /\ ~Present(Job(j).errors) /\ ~Present(Job(j).error)
        /\ \E n \in 1 .. Job(j).totalPages : PageFileOf(outputDir, j, n, "raw")

\* C14 (the claim): the overall ratio is guarded against a zero totalCompressedSize:
\* the compressionRatio stored on every completed job is a well-defined number,
\* also when no page was processed successfully.
C14_RatioWellDefined ==
    \A j \in JobIds :
        Status(j) = "completed" =>
            /\ Present(Job(j).compressionRatio)
            /\ Job(j).compressionRatio[1].kind = "finite"

\* C15: every completed job has progress 100, whatever the number of pages that
\* were skipped, also with processedPages < totalPages and with totalPages = 0.
C15_CompletedProgress100 ==
    \A j \in JobIds : Status(j) = "completed" => Job(j).progress = 100

\* a job has completed at progress 100 with a page skipped, another with no page
C15_Witness ==
    \E j, k \in JobIds :
        /\ Status(j) = "completed" /\ Job(j).progress = 100
        /\ Job(j).processedPages < Job(j).totalPages
        /\ Status(k) = "completed" /\ Job(k).progress = 100
        /\ Job(k).totalPages = 0

\* a step of the service that is neither an upload nor a step of a pipeline
RequestStep == proc' = proc /\ jobCounter' = jobCounter

\* C16: a cleanup request removes files of the input directory only: the step
\* leaves the input directory without a file and every output subdirectory, every
\* Job Record and the setImmediate queue as they were; and the request is answered
\* with 200, with or without a file to delete.
C16_CleanupInputOnly ==
    /\ [](CleanupResponse(cleanupDirectoriesThrows).code = 200)
    /\ [][RequestStep =>
            /\ inputDir' = [f \in DirIds |-> None]
            /\ outputDir' = outputDir
            /\ conversionJobs' = conversionJobs
            /\ immediates' = immediates
        ]_vars

\* after a cleanup removed the source of a completed job, the page file the job
\* wrote is still there and the record still says completed
C16_Witness ==
    \E j \in JobIds :
        /\ SourceAbsent(j)
        /\ inputDir = [f \in DirIds |-> None]
        /\ Status(j) = "completed"
        /\ Job(j).processedPages >= 1
        /\ \E n \in 1 .. Job(j).totalPages, b \in {"raw", "optimized"} :
              PageFileOf(outputDir, j, n, b)

\* the batch run logged the failure of the PDF at index i
PdfError(b, i) == << "processing", i, 0 >> \in b.errors

\* the batch run logged the failure of the render of page n of the PDF at index i
RenderError(b, i, n) == << "rendering", i, n >> \in b.errors

\* C17: the batch converter attempts every PDF it listed: the failure of one PDF
\* is logged and the run goes on with the next PDF, never exits for it, and has
\* attempted all of them when it returns; within a PDF, a page whose render fails
\* is logged and the run goes on with the next page, so that a PDF that did not
\* fail as a whole has every page converted or logged as skipped.
C17_BatchAttemptsEveryPdf ==
    /\ [](/\ batch.pc = "returned" =>
                /\ batch.attempted = 1 .. Len(batch.pdfFiles)
                /\ \A i \in 1 .. Len(batch.pdfFiles) :
                      \/ PdfError(batch, i)
                      \/ \A n \in 1 .. batch.pdfFiles[i] :
                            << i, n >> \in batch.images \/ RenderError(batch, i, n)
          /\ batch.pc = "exit1" => batch.attempted = {}
          /\ batch.pc \notin {"returned", "exit1"} => ENABLED BatchNext)
    /\ [][ /\ \A i \in 1 .. Len(batch.pdfFiles) :
                (PdfError(batch', i) /\ ~PdfError(batch, i)) =>
                    IF i < Len(batch.pdfFiles)
                    THEN batch'.pc = "convert" /\ batch'.index = i + 1
                    ELSE batch'.pc = "returned"
          /\ \A i \in 1 .. Len(batch.pdfFiles), n \in 1 .. MaxPages :
                (RenderError(batch', i, n) /\ ~RenderError(batch, i, n) /\ n < batch.totalPages)
                    => /\ batch'.pc = "getPage"
                       /\ batch'.index = i
                       /\ batch'.pageNum = n + 1
        ]_vars

\* the run has returned after the first PDF failed and the last was converted
\* with its first page skipped and its second page written
C17_Witness ==
    /\ batch.pc = "returned"
    /\ Len(batch.pdfFiles) = MaxPdfs
    /\ PdfError(batch, 1)
    /\ RenderError(batch, MaxPdfs, 1)
    /\ << MaxPdfs, 2 >> \in batch.images

\* C18: for every job, endTime is present if and only if the status is completed
\* or failed; and the step that takes a job into a terminal status (completion,
\* missing source file, rejected document, any error thrown in the loop) is the
\* step that makes its endTime present.
C18_EndTimeIffTerminal ==
    /\ [](\A j \in JobIds : Present(Job(j).endTime) <=> Terminal(Status(j)))
    /\ [][\A j \in JobIds :
            (~Terminal(Status(j)) /\ Terminal(conversionJobs'[j].status))
                => ~Present(Job(j).endTime) /\ Present(conversionJobs'[j].endTime)
        ]_vars

\* a job has failed for its missing source and carries an endTime, while a job
\* being processed carries none
C18_Witness ==
    \E j, k \in JobIds :
        /\ Status(j) = "failed"
        /\ Job(j).error = Some("PDF file not found at path")
        /\ Present(Job(j).endTime)
        /\ Status(k) = "processing"
        /\ ~Present(Job(k).endTime)

\* C19 (the claim): the step that processes a page of a job with totalPages > 0
\* leaves progress = floor(processedPages * 100 / totalPages) for the incremented
\* processedPages, a value in 0..100, while the job is processing.
C19_ProgressIsFloor ==
    [][\A j \in JobIds :
         (/\ conversionJobs'[j].processedPages = Job(j).processedPages + 1
          /\ conversionJobs'[j].status = "processing"
          /\ conversionJobs'[j].totalPages > 0) =>
            /\ conversionJobs'[j].progress =
                  (conversionJobs'[j].processedPages * 100) \div conversionJobs'[j].totalPages
            /\ conversionJobs'[j].progress \in 0 .. 100
      ]_vars

\* C20 (the claim): the page object of every page a pipeline attempts is cleaned up
\* before the pipeline fetches the next page, its render having failed or not: a
\* pipeline about to fetch a page holds no page, and never holds more than one.
C20_PageReleasedBeforeNext ==
    \A j \in JobIds :
        /\ Cardinality(proc[j].held) <= 1
        /\ proc[j].pc = "getPage" => proc[j].held = {}

\* the page a Job Record says is in hand, 0 before the loop
CurrentPageOf(job) == IF Present(job.currentPage) THEN job.currentPage[1] ELSE 0

\* C21: within one job the pages are attempted one at a time in ascending order:
\* currentPage stays or grows by one, from no page to page 1, never beyond
\* totalPages; the pipeline works on the page currentPage names; and the step that
\* starts page n+1 finds page n written to disk in that step or recorded as a
\* per-page error, so that no page is attempted twice.
C21_PagesInAscendingOrder ==
    /\ [](\A j \in JobIds :
            /\ CurrentPageOf(Job(j)) \in 0 .. Job(j).totalPages
            /\ proc[j].pc \in {"getPage", "render", "optimize", "writeFile"}
                  => CurrentPageOf(Job(j)) = proc[j].pageNum)
    /\ [][\A j \in JobIds :
            LET n == CurrentPageOf(Job(j))
                job == conversionJobs'[j]
            IN /\ CurrentPageOf(job) \in {n, n + 1}
               /\ (CurrentPageOf(job) = n + 1 /\ n >= 1) =>
                     /\ proc'[j].pc = "getPage"
                     /\ \/ /\ job.processedPages = Job(j).processedPages + 1
                           /\ \E b \in {"raw", "optimized"} : PageFileOf(outputDir', j, n, b)
                        \/ /\ job.processedPages = Job(j).processedPages
                           /\ n \in ErrorPages(job)
                           /\ n \notin ErrorPages(Job(j))
        ]_vars

\* one job is about to fetch page 2 after it wrote page 1, another after page 1
\* failed and was recorded
C21_Witness ==
    \E j, k \in JobIds :
        /\ proc[j].pc = "getPage" /\ CurrentPageOf(Job(j)) = 2
        /\ Job(j).processedPages = 1
        /\ proc[k].pc = "getPage" /\ CurrentPageOf(Job(k)) = 2
        /\ 1 \in ErrorPages(Job(k))

\* job j occurs this many times in the setImmediate queue
Scheduled(queue, j) == Cardinality({ i \in 1 .. Len(queue) : queue[i] = j })

\* C22: each job has exactly one pipeline invocation, which changes no Job Record
\* but its own: a job is once in the setImmediate queue until its callback runs and
\* never again, a pipeline that has started or returned is never started again,
\* and every step of the pipeline of job j, its fatal failure included, leaves the
\* Job Record of every other job as it was.
C22_OnePipelineOwnRecord ==
    /\ [](\A j \in JobIds :
            Scheduled(immediates, j) = IF proc[j].pc = "scheduled" THEN 1 ELSE 0)
    /\ [][\A j \in JobIds :
            /\ proc[j].pc # "scheduled" => proc'[j].pc # "scheduled"
            /\ proc[j].pc = "done" => proc'[j] = proc[j] /\ conversionJobs'[j] = Job(j)
            /\ Steps(j) => \A k \in JobIds \ {j} : conversionJobs'[k] = Job(k)
            /\ conversionJobs'[j] # Job(j) => Steps(j)
        ]_vars

\* the pipeline of one job has failed on a rejected document while another job,
\* with a page processed, goes on
C22_Witness ==
    \E j, k \in JobIds :
        /\ Status(j) = "failed"
        /\ Job(j).error = Some("Invalid PDF structure")
        /\ Status(k) = "processing"
        /\ Job(k).processedPages >= 1

\* C23: every completed job accounts for each of its pages exactly once:
\* processedPages plus the number of entries of errors (none when errors is
\* absent) equals totalPages, and no page has two entries.
C23_PagesAccountedOnce ==
    \A j \in JobIds :
        Status(j) = "completed" =>
            /\ Job(j).processedPages + Len(ErrorsOf(Job(j))) = Job(j).totalPages
            /\ Cardinality(ErrorPages(Job(j))) = Len(ErrorsOf(Job(j)))
            /\ ErrorPages(Job(j)) \subseteq 1 .. Job(j).totalPages

\* a job has completed with one page processed and one page in errors, another
\* with every page processed and no errors sequence
C23_Witness ==
    \E j, k \in JobIds :
        /\ Status(j) = "completed"
        /\ Job(j).processedPages = 1 /\ Len(ErrorsOf(Job(j))) = 1
        /\ Status(k) = "completed"
        /\ Job(k).processedPages = MaxPages /\ ~Present(Job(k).errors)

====
